---- MODULE Spec2Model ----
(***************************************************************************)
(* Upload & catalog synchronisation coordinator of the ShellOS package     *)
(* repository (src/app.js, component App).                                 *)
(*                                                                         *)
(* The React state of App is the state of the model; every callback of the *)
(* component (effects, auth listener, snapshot listener, form handlers,    *)
(* upload-task observers, the continuations after each await) is one       *)
(* action.  Firebase auth, Firestore and Storage are the environment: they *)
(* deliver the events the callbacks are registered for.                    *)
(*                                                                         *)
(* JavaScript strings are sequences of one-character strings, null is the  *)
(* empty tuple, a File is the pair <<name, size>>.                         *)
(***************************************************************************)
EXTENDS Integers, Sequences, FiniteSets, TLC

(* ------------------------------ bounds --------------------------------- *)
MaxTasks == 2          \* publish requests accepted in one session
MaxNameLen == 2        \* length of the package names tried on the file name

MaxFileSize == 2     \* largest payload, in bytes, of the progress study
(* ------------------------------ values --------------------------------- *)
NULL == << >>
NaN == -1              \* the result of 0 / 0 * 100; not a number of 0..100

Uid(n) == <<"uid", n>>            \* user.uid of a signed-in user
UUID(n) == <<"uuid", n>>          \* n-th result of crypto.randomUUID()

Upper == <<"A","B","C","D","E","F","G","H","I","J","K","L","M",
           "N","O","P","Q","R","S","T","U","V","W","X","Y","Z">>
Lower == <<"a","b","c","d","e","f","g","h","i","j","k","l","m",
           "n","o","p","q","r","s","t","u","v","w","x","y","z">>
Digits == {"0","1","2","3","4","5","6","7","8","9"}

(* String.prototype.toLowerCase on the characters the model uses. *)
toLowerChar(c) ==
  IF \E i \in 1..26 : Upper[i] = c
    THEN Lower[CHOOSE i \in 1..26 : Upper[i] = c]
    ELSE c
toLowerCase(s) == [i \in 1..Len(s) |-> toLowerChar(s[i])]

(* s.replace(/[^a-z0-9_.-]/g, '') *)
IsSafeChar(c) ==
  \/ \E i \in 1..26 : Lower[i] = c
  \/ c \in Digits
  \/ c \in {"_", ".", "-"}
stripUnsafe(s) == SelectSeq(s, IsSafeChar)

(* s.split('.'): the segments between the dots, scanned left to right. *)
RECURSIVE splitDot(_, _, _)
splitDot(s, i, cur) ==
  IF i > Len(s) THEN <<cur>>
  ELSE IF s[i] = "." THEN <<cur>> \o splitDot(s, i + 1, << >>)
  ELSE splitDot(s, i + 1, Append(cur, s[i]))
split(s) == splitDot(s, 1, << >>)
pop(a) == a[Len(a)]

FileNameOf(f) == f[1]
FileSizeOf(f) == f[2]

(* faulty variant: the name stripped without toLowerCase *)
sanitizedPackageNameCaseKept(name) == stripUnsafe(name)
(* lines 118-120 of handleUpload *)
sanitizedPackageName(name) == stripUnsafe(toLowerCase(name))
fileExtension(file) == pop(split(FileNameOf(file)))
fileName(name, version, file) ==
  sanitizedPackageName(name) \o <<"_", "v">> \o version \o <<".">> \o fileExtension(file)

(* line 122: `artifacts/${appId}/packages/${fileName}` *)
storagePath(fname) == <<"artifacts/", "appId", "/packages/">> \o fname

(* line 128: (bytesTransferred / totalBytes) * 100 *)
progressOf(bytesTransferred, totalBytes) ==
  IF totalBytes = 0 THEN NaN ELSE (bytesTransferred * 100) \div totalBytes

(* --------------------------- input domains ----------------------------- *)
NameInputs == { << >>, <<"F","o","o">> }
DescriptionInputs == { << >>, <<"d">> }
VersionInputs == { << >>, <<"2",".","0">> }
FileInputs == { <<<<"d",".","p","y">>, 1>> }

(* user-visible messages, named by their fixed text *)
MsgNone == ""
MsgAuthError == "Auth error: "
MsgInitError == "Firebase init error: "
MsgLoadFailed == "Failed to load packages: "
MsgValidation == "Please fill all fields and select a file."
MsgStarting == "Starting upload..."
MsgProgress == "Upload is N% done"
MsgUploadFailed == "Upload failed: "
MsgSaving == "Upload successful. Saving package info..."
MsgSaved == "Package saved successfully! Your SPM program can now fetch it."
MsgSaveFailed == "Failed to save package info: "

(* ------------------------------- state --------------------------------- *)
VARIABLES
  db, auth, storage,        \* useState handles, lines 15-17
  userId, isAuthReady,      \* lines 18-19
  packages,                 \* local catalog snapshot, line 20
  uploading, uploadProgress, uploadMessage,   \* lines 21-23
  packageName, packageDescription, packageVersion, packageFile, \* lines 26-29
  mounted,                  \* "no" | "ok" | "failed": the mount effect, lines 32-74
  signIn,                   \* "idle" | "pending" | "ok" | "failed": signInUser
  authEvents,               \* auth-state notifications not yet delivered
  uuids,                    \* number of crypto.randomUUID() calls
  subscription,             \* "none" | "open" | "error": the onSnapshot listener
  subscriptionsOpened,      \* number of onSnapshot calls
  store,                    \* the Firestore collection: sequence of records
  storageObjects,           \* paths of the artifacts fully stored
  tasks                     \* the publish transactions started, in order

formVars == <<packageName, packageDescription, packageVersion, packageFile>>
handleVars == <<db, auth, storage>>
authVars == <<userId, isAuthReady, mounted, signIn, authEvents, uuids>>
catalogVars == <<packages, subscription, subscriptionsOpened>>
uploadVars == <<uploading, uploadProgress, uploadMessage>>
remoteVars == <<store, storageObjects>>
vars == <<db, auth, storage, userId, isAuthReady, packages, uploading,
          uploadProgress, uploadMessage, packageName, packageDescription,
          packageVersion, packageFile, mounted, signIn, authEvents,
          uuids, subscription, subscriptionsOpened, store,
          storageObjects, tasks>>

Init ==
  /\ db = NULL /\ auth = NULL /\ storage = NULL
  /\ userId = NULL /\ isAuthReady = FALSE
  /\ packages = << >>
  /\ uploading = FALSE /\ uploadProgress = 0 /\ uploadMessage = MsgNone
  /\ packageName = << >> /\ packageDescription = << >>
  /\ packageVersion = << >> /\ packageFile = NULL
  /\ mounted = "no" /\ signIn = "idle" /\ authEvents = << >> /\ uuids = 0
  /\ subscription = "none" /\ subscriptionsOpened = 0
  /\ store = << >> /\ storageObjects = {}
  /\ tasks = << >>

(* ------------------------- Catalog Subscriber -------------------------- *)
(* The subscription effect, lines 77-97.  React runs it after the render   *)
(* of a state change that changed db or isAuthReady (its dependencies; the *)
(* run of the first render saw null and false and did nothing), so it is   *)
(* part of the callbacks that change them.  dbNow and ready are the values *)
(* of that render.                                                         *)
(* faulty variant: the effect without the isAuthReady test *)
subscriptionEffectEager(dbNow, ready) ==
  IF <<dbNow, ready>> # <<db, isAuthReady>> /\ dbNow # NULL
    THEN /\ subscription' = "open"
         /\ subscriptionsOpened' = subscriptionsOpened + 1
    ELSE UNCHANGED <<subscription, subscriptionsOpened>>
(* faulty variant: the effect without its dependency list, run after every *)
(* render                                                                  *)
subscriptionEffectEveryRender(dbNow, ready) ==
  IF dbNow # NULL /\ ready
    THEN /\ subscription' = "open"
         /\ subscriptionsOpened' = subscriptionsOpened + 1
    ELSE UNCHANGED <<subscription, subscriptionsOpened>>
subscriptionEffect(dbNow, ready) ==
  IF <<dbNow, ready>> # <<db, isAuthReady>> /\ dbNow # NULL /\ ready
    THEN /\ subscription' = "open"
         /\ subscriptionsOpened' = subscriptionsOpened + 1
    ELSE UNCHANGED <<subscription, subscriptionsOpened>>

(* { id: doc.id, ...doc.data() } for every document, lines 85-88 *)
fetchedPackages(docs) == [i \in 1..Len(docs) |-> [id |-> i] @@ docs[i]]

(* faulty variant: the documents of the notification are added to the      *)
(* catalog already held                                                    *)
onSnapshotMerges ==
  /\ subscription = "open"
  /\ packages' = packages \o fetchedPackages(store)
  /\ UNCHANGED <<handleVars, authVars, subscription, subscriptionsOpened,
                 uploadVars, formVars, remoteVars, tasks>>
(* The snapshot callback, lines 84-89. *)
onSnapshot ==
  /\ subscription = "open"
  /\ packages' = fetchedPackages(store)
  /\ UNCHANGED <<handleVars, authVars, subscription, subscriptionsOpened,
                 uploadVars, formVars, remoteVars, tasks>>

(* faulty variant: the error callback empties the catalog *)
onSnapshotErrorClearsCatalog ==
  /\ subscription = "open"
  /\ subscription' = "error"
  /\ uploadMessage' = MsgLoadFailed
  /\ packages' = << >>
  /\ UNCHANGED <<handleVars, authVars, subscriptionsOpened,
                 uploading, uploadProgress, formVars, remoteVars, tasks>>
(* The error callback of the listener, lines 90-93; the listener is dead   *)
(* afterwards.                                                             *)
onSnapshotError ==
  /\ subscription = "open"
  /\ subscription' = "error"
  /\ uploadMessage' = MsgLoadFailed
  /\ UNCHANGED <<handleVars, authVars, packages, subscriptionsOpened,
                 uploading, uploadProgress, formVars, remoteVars, tasks>>

(* ----------------------- Identity Bootstrapper ------------------------- *)
(* The mount effect, lines 32-74.  Either the four Firebase calls succeed, *)
(* the handles are stored, the auth listener is registered (it is notified *)
(* of the current user, null in a fresh session) and signInUser starts; or *)
(* one of them throws and only the message is set.                         *)
MountEffect ==
  /\ mounted = "no"
  /\ \/ /\ mounted' = "ok"
        /\ db' = <<"db">> /\ auth' = <<"auth">> /\ storage' = <<"storage">>
        /\ authEvents' = <<NULL>>
        /\ signIn' = "pending"
        /\ subscriptionEffect(<<"db">>, isAuthReady)
        /\ UNCHANGED uploadMessage
     \/ /\ mounted' = "failed"
        /\ uploadMessage' = MsgInitError
        /\ UNCHANGED <<db, auth, storage, authEvents, signIn, subscription,
                       subscriptionsOpened>>
  /\ UNCHANGED <<userId, isAuthReady, packages, uploading, uploadProgress,
                 formVars, uuids, remoteVars, tasks>>

(* signInUser, lines 44-55: the awaited sign-in call resolves (the         *)
(* listener is notified of the signed-in user) ...                         *)
SignInResolved ==
  /\ signIn = "pending"
  /\ signIn' = "ok"
  /\ authEvents' = Append(authEvents, Uid(1))
  /\ UNCHANGED <<handleVars, userId, isAuthReady, mounted, uuids,
                 catalogVars, uploadVars, formVars, remoteVars, tasks>>

(* ... or rejects: the catch block of lines 51-54. *)
SignInRejected ==
  /\ signIn = "pending"
  /\ signIn' = "failed"
  /\ uploadMessage' = MsgAuthError
  /\ UNCHANGED <<handleVars, userId, isAuthReady, mounted, authEvents, uuids,
                 catalogVars, uploading, uploadProgress, formVars,
                 remoteVars, tasks>>

(* faulty variant: only a signed-in user makes the session ready *)
onAuthStateChangedSignedInOnly ==
  /\ authEvents # << >>
  /\ LET user == Head(authEvents) IN
       IF user # NULL
         THEN /\ userId' = user
              /\ isAuthReady' = TRUE
              /\ subscriptionEffect(db, TRUE)
         ELSE UNCHANGED <<userId, isAuthReady, subscription, subscriptionsOpened>>
  /\ authEvents' = Tail(authEvents)
  /\ UNCHANGED <<handleVars, mounted, signIn, uuids, packages, uploadVars,
                 formVars, remoteVars, tasks>>
(* The onAuthStateChanged callback, lines 58-65, and the effect run of its *)
(* render.                                                                 *)
onAuthStateChanged ==
  /\ authEvents # << >>
  /\ LET user == Head(authEvents) IN
       IF user # NULL
         THEN userId' = user /\ uuids' = uuids
         ELSE userId' = UUID(uuids + 1) /\ uuids' = uuids + 1
  /\ isAuthReady' = TRUE
  /\ authEvents' = Tail(authEvents)
  /\ subscriptionEffect(db, TRUE)
  /\ UNCHANGED <<handleVars, mounted, signIn, packages, uploadVars,
                 formVars, remoteVars, tasks>>

(* ------------------------------ the form ------------------------------- *)
(* disabled={!isAuthReady || uploading} of the four inputs, lines 205, 218, *)
(* 231, 243: a disabled input takes no user input                          *)
inputsDisabled == ~isAuthReady \/ uploading

(* onChange of the three text inputs, lines 202, 214, 228; the event fires *)
(* when the user changes the value of the input                            *)
setPackageName(v) ==
  /\ ~inputsDisabled
  /\ v # packageName
  /\ packageName' = v
  /\ UNCHANGED <<handleVars, authVars, catalogVars, uploadVars,
                 packageDescription, packageVersion, packageFile, remoteVars, tasks>>
setPackageDescription(v) ==
  /\ ~inputsDisabled
  /\ v # packageDescription
  /\ packageDescription' = v
  /\ UNCHANGED <<handleVars, authVars, catalogVars, uploadVars,
                 packageName, packageVersion, packageFile, remoteVars, tasks>>
setPackageVersion(v) ==
  /\ ~inputsDisabled
  /\ v # packageVersion
  /\ packageVersion' = v
  /\ UNCHANGED <<handleVars, authVars, catalogVars, uploadVars,
                 packageName, packageDescription, packageFile, remoteVars, tasks>>
(* lines 99-103: an empty selection (files[0] undefined) keeps the old file *)
handleFileChange(files) ==
  /\ ~inputsDisabled
  /\ IF files # << >> THEN packageFile' = files[1] ELSE UNCHANGED packageFile
  /\ UNCHANGED <<handleVars, authVars, catalogVars, uploadVars,
                 packageName, packageDescription, packageVersion, remoteVars, tasks>>
(* ------------------------- Publish Transaction ------------------------- *)
(* An element of `tasks` is one accepted call of handleUpload: the values  *)
(* its callbacks close over (packageName, packageDescription,              *)
(* packageVersion, file, fileName, userId of the render that handled the   *)
(* submit), the upload task (upload, bytesTransferred, totalBytes) and how *)
(* far the completion callback has come (status, downloadURL; docId is the *)
(* document addDoc created, 0 for none).                                   *)
(*   status: "Uploading" | "ResolvingURL" | "WritingRecord"                *)
(*           | "Published" | "UploadFailed" | "CommitFailed"               *)
(*   upload: "in-progress" | "succeeded" | "failed"                        *)
(* Once the terminal callback has returned nothing refers to the closure  *)
(* and the upload task any more: only the outcome of the transaction is    *)
(* kept.                                                                   *)
outcome(status, upload, docId) ==
  [status |-> status, upload |-> upload,
   packageName |-> << >>, packageDescription |-> << >>,
   packageVersion |-> << >>, file |-> NULL, fileName |-> << >>,
   userId |-> NULL, bytesTransferred |-> 0, totalBytes |-> 0,
   downloadURL |-> NULL, docId |-> docId]

InFlightStatus == {"Uploading", "ResolvingURL", "WritingRecord"}
CommittingStatus == {"ResolvingURL", "WritingRecord"}
FailedStatus == {"UploadFailed", "CommitFailed"}
TaskIds == 1..Len(tasks)
InFlight == {i \in TaskIds : tasks[i].status \in InFlightStatus}

(* faulty variant: the gate without the version test *)
formInvalidNoVersion ==
  \/ packageFile = NULL
  \/ packageName = << >>
  \/ packageDescription = << >>
  \/ auth = NULL
  \/ userId = NULL
(* the validation gate, line 107 *)
formInvalid ==
  \/ packageFile = NULL
  \/ packageName = << >>
  \/ packageDescription = << >>
  \/ packageVersion = << >>
  \/ auth = NULL
  \/ userId = NULL

(* lines 116-123: the upload task and what its callbacks capture *)
newTask ==
  [status |-> "Uploading", upload |-> "in-progress",
   packageName |-> packageName, packageDescription |-> packageDescription,
   packageVersion |-> packageVersion, file |-> packageFile,
   fileName |-> fileName(packageName, packageVersion, packageFile),
   userId |-> userId,
   bytesTransferred |-> 0, totalBytes |-> FileSizeOf(packageFile),
   downloadURL |-> NULL, docId |-> 0]

(* handleUpload up to its return, lines 105-125 *)
handleUpload ==
  IF formInvalid
    THEN /\ uploadMessage' = MsgValidation
         /\ UNCHANGED <<handleVars, authVars, catalogVars, uploading,
                        uploadProgress, formVars, remoteVars, tasks>>
    ELSE /\ Len(tasks) < MaxTasks
         /\ uploading' = TRUE
         /\ uploadMessage' = MsgStarting
         /\ uploadProgress' = 0
         /\ tasks' = Append(tasks, newTask)
         /\ UNCHANGED <<handleVars, authVars, catalogVars, formVars, remoteVars>>

(* the progress observer, lines 127-131 *)
onProgress(i) ==
  /\ tasks[i].status = "Uploading"
  /\ \E b \in tasks[i].bytesTransferred .. tasks[i].totalBytes :
       /\ tasks' = [tasks EXCEPT ![i].bytesTransferred = b]
       /\ uploadProgress' = progressOf(b, tasks[i].totalBytes)
  /\ uploadMessage' = MsgProgress
  /\ UNCHANGED <<handleVars, authVars, catalogVars, uploading, formVars, remoteVars>>

(* faulty variants of the error observer: one resets the form as the      *)
(* success path does, one goes on to the commit                            *)
onUploadErrorClearsForm(i) ==
  /\ tasks[i].status = "Uploading"
  /\ tasks' = [tasks EXCEPT ![i] = outcome("UploadFailed", "failed", 0)]
  /\ uploadMessage' = MsgUploadFailed
  /\ packageName' = << >>
  /\ packageDescription' = << >>
  /\ packageVersion' = << >>
  /\ packageFile' = NULL
  /\ uploading' = FALSE
  /\ UNCHANGED <<handleVars, authVars, catalogVars, uploadProgress, remoteVars>>
onUploadErrorFallsThrough(i) ==
  /\ tasks[i].status = "Uploading"
  /\ tasks' = [tasks EXCEPT ![i].status = "ResolvingURL", ![i].upload = "failed"]
  /\ uploadMessage' = MsgUploadFailed
  /\ uploading' = FALSE
  /\ UNCHANGED <<handleVars, authVars, catalogVars, uploadProgress, formVars,
                 remoteVars>>
(* the error observer, lines 132-136 *)
onUploadError(i) ==
  /\ tasks[i].status = "Uploading"
  /\ tasks' = [tasks EXCEPT ![i] = outcome("UploadFailed", "failed", 0)]
  /\ uploadMessage' = MsgUploadFailed
  /\ uploading' = FALSE
  /\ UNCHANGED <<handleVars, authVars, catalogVars, uploadProgress, formVars,
                 remoteVars>>

(* the completion observer up to its first await, lines 137-139: the       *)
(* artifact is stored at its path and getDownloadURL is called             *)
onUploadComplete(i) ==
  /\ tasks[i].status = "Uploading"
  /\ tasks' = [tasks EXCEPT ![i].status = "ResolvingURL", ![i].upload = "succeeded",
                            ![i].bytesTransferred = tasks[i].totalBytes]
  /\ storageObjects' = storageObjects \cup {storagePath(tasks[i].fileName)}
  /\ UNCHANGED <<handleVars, authVars, catalogVars, uploadVars, formVars,
                 store>>

(* getDownloadURL resolves: lines 139-144 up to the await of addDoc *)
downloadURLOf(path) == <<"https://">> \o path
(* faulty variant: the record is written without the resolved URL *)
onDownloadURLSkipped(i) ==
  /\ tasks[i].status = "ResolvingURL"
  /\ tasks' = [tasks EXCEPT ![i].status = "WritingRecord"]
  /\ uploadMessage' = MsgSaving
  /\ UNCHANGED <<handleVars, authVars, catalogVars, uploading, uploadProgress,
                 formVars, remoteVars>>
onDownloadURL(i) ==
  /\ tasks[i].status = "ResolvingURL"
  /\ tasks' = [tasks EXCEPT ![i].status = "WritingRecord",
                 ![i].downloadURL = downloadURLOf(storagePath(tasks[i].fileName))]
  /\ uploadMessage' = MsgSaving
  /\ UNCHANGED <<handleVars, authVars, catalogVars, uploading, uploadProgress,
                 formVars, remoteVars>>

(* faulty variant: the form reset moved into the finally block *)
commitFailedClearsForm(i) ==
  /\ tasks' = [tasks EXCEPT ![i] = outcome("CommitFailed", "succeeded", 0)]
  /\ uploadMessage' = MsgSaveFailed
  /\ packageName' = << >>
  /\ packageDescription' = << >>
  /\ packageVersion' = << >>
  /\ packageFile' = NULL
  /\ uploading' = FALSE
  /\ uploadProgress' = 0
  /\ UNCHANGED <<handleVars, authVars, catalogVars, remoteVars>>
(* the catch and finally blocks, lines 164-170 *)
commitFailed(i) ==
  /\ tasks' = [tasks EXCEPT ![i] = outcome("CommitFailed", "succeeded", 0)]
  /\ uploadMessage' = MsgSaveFailed
  /\ uploading' = FALSE
  /\ uploadProgress' = 0
  /\ UNCHANGED <<handleVars, authVars, catalogVars, formVars, remoteVars>>

(* getDownloadURL rejects *)
onDownloadURLError(i) ==
  /\ tasks[i].status = "ResolvingURL"
  /\ commitFailed(i)

(* faulty variant: name stored without toLowerCase *)
newRecordRawName(t, serverTimestamp) ==
  [name |-> t.packageName,
   displayName |-> t.packageName,
   description |-> t.packageDescription,
   version |-> t.packageVersion,
   fileName |-> t.fileName,
   fileUrl |-> t.downloadURL,
   uploaderId |-> t.userId,
   uploadTime |-> serverTimestamp]
(* the document passed to addDoc, lines 144-153 *)
newRecord(t, serverTimestamp) ==
  [name |-> toLowerCase(t.packageName),
   displayName |-> t.packageName,
   description |-> t.packageDescription,
   version |-> t.packageVersion,
   fileName |-> t.fileName,
   fileUrl |-> t.downloadURL,
   uploaderId |-> t.userId,
   uploadTime |-> serverTimestamp]

(* faulty variant: the success path without setPackageFile(null) *)
onAddDocKeepsFile(i) ==
  /\ tasks[i].status = "WritingRecord"
  /\ store' = Append(store, newRecord(tasks[i], Len(store) + 1))
  /\ tasks' = [tasks EXCEPT ![i] = outcome("Published", "succeeded", Len(store) + 1)]
  /\ uploadMessage' = MsgSaved
  /\ packageName' = << >>
  /\ packageDescription' = << >>
  /\ packageVersion' = << >>
  /\ uploading' = FALSE
  /\ uploadProgress' = 0
  /\ UNCHANGED <<handleVars, authVars, catalogVars, storageObjects, packageFile>>
(* addDoc resolves: the store holds the record; lines 155-163, 167-170 *)
onAddDoc(i) ==
  /\ tasks[i].status = "WritingRecord"
  /\ store' = Append(store, newRecord(tasks[i], Len(store) + 1))
  /\ tasks' = [tasks EXCEPT ![i] = outcome("Published", "succeeded", Len(store) + 1)]
  /\ uploadMessage' = MsgSaved
  /\ packageName' = << >>
  /\ packageDescription' = << >>
  /\ packageVersion' = << >>
  /\ packageFile' = NULL
  /\ uploading' = FALSE
  /\ uploadProgress' = 0
  /\ UNCHANGED <<handleVars, authVars, catalogVars, storageObjects>>

(* addDoc rejects *)
onAddDocError(i) ==
  /\ tasks[i].status = "WritingRecord"
  /\ commitFailed(i)

(* ---------------------------- specification ---------------------------- *)
FormEdit ==
  \/ \E v \in NameInputs : setPackageName(v)
  \/ \E v \in DescriptionInputs : setPackageDescription(v)
  \/ \E v \in VersionInputs : setPackageVersion(v)
  \/ \E f \in FileInputs : \E files \in {<< >>, <<f>>} : handleFileChange(files)

Next ==
  \/ MountEffect
  \/ SignInResolved
  \/ SignInRejected
  \/ onAuthStateChanged
  \/ onSnapshot
  \/ onSnapshotError
  \/ FormEdit
  \/ handleUpload
  \/ \E i \in TaskIds : onProgress(i)
  \/ \E i \in TaskIds : onUploadError(i)
  \/ \E i \in TaskIds : onUploadComplete(i)
  \/ \E i \in TaskIds : onDownloadURL(i)
  \/ \E i \in TaskIds : onDownloadURLError(i)
  \/ \E i \in TaskIds : onAddDoc(i)
  \/ \E i \in TaskIds : onAddDocError(i)

Spec == Init /\ [][Next]_vars

(* Fair delivery: the uploader delivers a terminal event to every upload   *)
(* in progress, and getDownloadURL and addDoc settle every call.           *)
UploadSettles(i) ==
  i \in TaskIds /\ (onUploadError(i) \/ onUploadComplete(i))
DownloadURLSettles(i) ==
  i \in TaskIds /\ (onDownloadURL(i) \/ onDownloadURLError(i))
AddDocSettles(i) ==
  i \in TaskIds /\ (onAddDoc(i) \/ onAddDocError(i))
FairDelivery ==
  \A i \in 1..MaxTasks :
     /\ WF_vars(UploadSettles(i))
     /\ WF_vars(DownloadURLSettles(i))
     /\ WF_vars(AddDocSettles(i))

(* The publish transactions on their own: the session is ready, the form   *)
(* is filled in, and requests and the events of their uploads follow.  The *)
(* callbacks left out (auth, snapshot, form inputs) neither read nor write *)
(* `tasks`, so they cannot keep a transaction from ending.                 *)
InitPublish ==
  /\ db = <<"db">> /\ auth = <<"auth">> /\ storage = <<"storage">>
  /\ userId = UUID(1) /\ isAuthReady = TRUE
  /\ packages = << >>
  /\ uploading = FALSE /\ uploadProgress = 0 /\ uploadMessage = MsgNone
  /\ packageName = <<"F","o","o">>
  /\ packageDescription = <<"d">>
  /\ packageVersion = <<"2",".","0">>
  /\ packageFile \in FileInputs
  /\ mounted = "ok" /\ signIn = "pending" /\ authEvents = << >> /\ uuids = 1
  /\ subscription = "open" /\ subscriptionsOpened = 1
  /\ store = << >> /\ storageObjects = {}
  /\ tasks = << >>
NextPublish ==
  \/ handleUpload
  \/ \E i \in TaskIds : onProgress(i)
  \/ \E i \in TaskIds : onUploadError(i)
  \/ \E i \in TaskIds : onUploadComplete(i)
  \/ \E i \in TaskIds : onDownloadURL(i)
  \/ \E i \in TaskIds : onDownloadURLError(i)
  \/ \E i \in TaskIds : onAddDoc(i)
  \/ \E i \in TaskIds : onAddDocError(i)
FairSpec == InitPublish /\ [][NextPublish]_vars /\ FairDelivery
(* ------------------------------ properties ----------------------------- *)
Ready == isAuthReady /\ userId # NULL
Published == {i \in TaskIds : tasks[i].status = "Published"}
Failed == {i \in TaskIds : tasks[i].status \in FailedStatus}

(* C1  Readiness gating: whenever a store operation has been issued (the   *)
(* catalog subscription opened, an upload started, a record written), the  *)
(* auth-state callback has set an identity and isAuthReady.                *)
ReadinessGating ==
  (subscriptionsOpened > 0 \/ subscription # "none" \/ tasks # << >>
     \/ store # << >> \/ storageObjects # {})
    => Ready
ReadinessGatingWitness ==
  /\ subscription = "open" /\ store # << >> /\ Ready

(* C2  A step that writes a metadata record is the step of a transaction   *)
(* that waits for addDoc after its own upload succeeded; a transaction     *)
(* whose upload failed has ended: it never changes again and has written   *)
(* no record.                                                              *)
CommitAfterUploadSuccess ==
  [][ /\ store' # store =>
           \E i \in TaskIds :
              /\ tasks[i].status = "WritingRecord"
              /\ tasks[i].upload = "succeeded"
              /\ tasks[i].docId = 0
              /\ tasks'[i].docId = Len(store')
              /\ Len(store') = Len(store) + 1
              /\ \A j \in TaskIds \ {i} : tasks'[j] = tasks[j]
      /\ \A i \in TaskIds :
           tasks[i].upload = "failed" =>
              /\ tasks[i].status = "UploadFailed"
              /\ tasks[i].docId = 0
              /\ tasks'[i] = tasks[i]
      /\ \A i \in TaskIds :
           (tasks[i].upload # "failed" /\ tasks'[i].upload = "failed") =>
              /\ tasks[i].status = "Uploading"
              /\ store' = store
    ]_vars
CommitAfterUploadSuccessWitness ==
  \E i, j \in TaskIds :
     /\ tasks[i].status = "UploadFailed" /\ tasks[i].docId = 0
     /\ tasks[j].status = "Published" /\ tasks[j].docId = Len(store)

(* C3  Transaction exclusivity: while a publish transaction is in          *)
(* Uploading or CommittingMetadata no step starts another upload, and at   *)
(* most one transaction is active at any time.                             *)
TransactionExclusivity ==
  [][ /\ InFlight # {} => Len(tasks') = Len(tasks)
      /\ Cardinality(InFlight') <= 1 ]_vars

(* C4  Atomic metadata visibility: every record of the store and of the    *)
(* local catalog snapshot has all required fields set.                     *)
RecordFields ==
  {"name", "displayName", "description", "version", "fileName", "fileUrl",
   "uploaderId", "uploadTime"}
FullyPopulated(r) ==
  /\ RecordFields \subseteq DOMAIN r
  /\ r.name # << >> /\ r.displayName # << >> /\ r.description # << >>
  /\ r.version # << >> /\ r.fileName # << >> /\ r.fileUrl # << >>
  /\ r.uploaderId # NULL
  /\ r.uploadTime \in Nat \ {0}
Becomes(i, status) == tasks[i].status # status /\ tasks'[i].status = status
PublishedAddsOneRecord ==
  [][ /\ \A i \in TaskIds :
           Becomes(i, "Published") =>
             LET t == tasks[i]
                 r == store'[Len(store')]
             IN /\ Len(store') = Len(store) + 1
                /\ SubSeq(store', 1, Len(store)) = store
                /\ r.name = toLowerCase(t.packageName)
                /\ (t.packageName = <<"F","o","o">> => r.name = <<"f","o","o">>)
                /\ r.displayName = t.packageName
                /\ r.description = t.packageDescription
                /\ r.version = t.packageVersion
                /\ r.fileUrl = downloadURLOf(storagePath(t.fileName))
      /\ Len(tasks') > Len(tasks) =>
           LET t == tasks'[Len(tasks')]
           IN /\ Len(tasks') = Len(tasks) + 1
              /\ <<t.packageName, t.packageDescription, t.packageVersion, t.file>>
                    = <<packageName, packageDescription, packageVersion, packageFile>>
              /\ store' = store
      /\ \A i \in TaskIds :
           (Becomes(i, "UploadFailed") \/ Becomes(i, "CommitFailed")) => store' = store
      /\ (uploadMessage # MsgValidation /\ uploadMessage' = MsgValidation) =>
           store' = store /\ tasks' = tasks
    ]_vars
PublishedAddsOneRecordWitness ==
  \E i \in Published :
     /\ Len(store) = 1 /\ tasks[i].docId = 1
     /\ store[1].name = <<"f","o","o">> /\ store[1].displayName = <<"F","o","o">>
     /\ store[1].version = <<"2",".","0">>
     /\ Failed # {}

(* C6  Under fair delivery of uploader and store events every transaction *)
(* that enters Uploading ends in Published or in Failed; an ended          *)
(* transaction never changes again, so it has one outcome; the uploader's  *)
(* terminal event of an attempt, once delivered, stays what it was, a      *)
(* failure event ends the transaction in Failed and only a success event   *)
(* leads on to the commit.                                                 *)
TerminalStatus == {"Published", "UploadFailed", "CommitFailed"}
OneTerminalOutcome ==
  /\ \A i \in 1..MaxTasks :
        (i \in TaskIds /\ tasks[i].status = "Uploading")
          ~> (i \in TaskIds /\ tasks[i].status \in TerminalStatus)
  /\ [](\A i \in TaskIds :
          /\ tasks[i].upload = "in-progress" <=> tasks[i].status = "Uploading"
          /\ tasks[i].upload = "failed" <=> tasks[i].status = "UploadFailed"
          /\ tasks[i].upload = "succeeded" <=>
                tasks[i].status \in CommittingStatus \cup {"Published", "CommitFailed"})
  /\ [][ \A i \in TaskIds :
           /\ tasks[i].status \in TerminalStatus => tasks'[i] = tasks[i]
           /\ tasks[i].upload # "in-progress" => tasks'[i].upload = tasks[i].upload
       ]_vars
OneTerminalOutcomeWitness ==
  /\ Len(tasks) = 2
  /\ tasks[1].status = "CommitFailed" /\ tasks[2].status = "Published"

MetadataCommitError ==
  [][ \A i \in TaskIds :
        Becomes(i, "CommitFailed") =>
          /\ tasks[i].status \in CommittingStatus
          /\ tasks[i].upload = "succeeded"
          /\ uploadMessage' = MsgSaveFailed
          /\ uploadMessage' # MsgUploadFailed
          /\ store' = store
          /\ tasks'[i].docId = 0
          /\ storagePath(tasks[i].fileName) \in storageObjects'
          /\ packageName' = packageName
          /\ packageDescription' = packageDescription
          /\ packageVersion' = packageVersion
          /\ packageFile' = packageFile
          /\ uploading' = FALSE
    ]_vars
MetadataCommitErrorWitness ==
  /\ \E i \in TaskIds : tasks[i].status = "CommitFailed"
  /\ uploadMessage = MsgSaveFailed /\ ~uploading
  /\ store = << >> /\ storageObjects # {}
  /\ packageName # << >> /\ packageFile # NULL

(* C9  Validation rejection: a publish request made while a field is empty *)
(* or absent, or while the identity or a store handle is not initialized,  *)
(* changes nothing but the message: no upload, no record, in-flight flag   *)
(* and progress as before.                                                 *)
RequestIncomplete ==
  \/ packageName = << >> \/ packageDescription = << >>
  \/ packageVersion = << >> \/ packageFile = NULL
  \/ userId = NULL \/ ~isAuthReady
  \/ db = NULL \/ auth = NULL \/ storage = NULL
ValidationRejection ==
  [][ (handleUpload /\ RequestIncomplete) =>
        /\ uploadMessage' = MsgValidation
        /\ UNCHANGED <<handleVars, authVars, catalogVars, uploading,
                       uploadProgress, formVars, remoteVars, tasks>>
    ]_vars
ValidationRejectionWitness ==
  /\ uploadMessage = MsgValidation /\ RequestIncomplete
  /\ packageName # << >> /\ packageFile # NULL /\ Ready
  /\ tasks = << >>
(* ------------------- the file name, on many inputs --------------------- *)
(* The session is ready (mounted, first auth-state notification handled,   *)
(* listener open) and the form holds any name over NameChars up to         *)
(* MaxNameLen characters or the name of the documented example, a version  *)
(* and a file; the publish request computes the file name.                 *)
NameChars == {"A", "b", "1", "_", "-", ".", "!", " "}
RECURSIVE StringsUpTo(_)
StringsUpTo(n) ==
  IF n = 0 THEN {<< >>}
  ELSE LET shorter == StringsUpTo(n - 1)
       IN shorter \cup {Append(w, c) : w \in shorter, c \in NameChars}
ExampleName == <<"M","y","C","o","o","l","A","p","p">>
ExampleVersion == <<"1",".","0",".","0">>
ExampleFile == <<"d","e","m","o",".","p","y">>
ExampleFileName ==
  <<"m","y","c","o","o","l","a","p","p","_","v","1",".","0",".","0",".","p","y">>
FileNameNames == (StringsUpTo(MaxNameLen) \ {<< >>}) \cup {ExampleName}
FileNameVersions == {ExampleVersion, <<"2">>}
FileNameFiles ==
  {ExampleFile, <<"a",".","t","a","r",".","g","z">>, <<"R","E","A","D","M","E">>,
   <<"x",".">>, <<".","p","y">>}

InitFileName ==
  /\ db = <<"db">> /\ auth = <<"auth">> /\ storage = <<"storage">>
  /\ userId = UUID(1) /\ isAuthReady = TRUE
  /\ packages = << >>
  /\ uploading = FALSE /\ uploadProgress = 0 /\ uploadMessage = MsgNone
  /\ packageName \in FileNameNames
  /\ packageDescription = <<"d">>
  /\ packageVersion \in FileNameVersions
  /\ \E f \in FileNameFiles : packageFile = <<f, 1>>
  /\ mounted = "ok" /\ signIn = "pending" /\ authEvents = << >> /\ uuids = 1
  /\ subscription = "open" /\ subscriptionsOpened = 1
  /\ store = << >> /\ storageObjects = {}
  /\ tasks = << >>
NextFileName == handleUpload
SpecFileName == InitFileName /\ [][NextFileName]_vars

(* C10  Deterministic file name: the destination file name depends on the  *)
(* name, the version and the file's extension only: it is the lowercased   *)
(* name without the characters outside [a-z0-9_.-], then "_v", the         *)
(* version, ".", and the text after the last dot of the file's name (the   *)
(* whole name when it has no dot); "MyCoolApp", "1.0.0", "demo.py" give    *)
(* "mycoolapp_v1.0.0.py".                                                  *)
AllowedChars ==
  {"a","b","c","d","e","f","g","h","i","j","k","l","m","n","o","p","q","r",
   "s","t","u","v","w","x","y","z"} \cup Digits \cup {"_", ".", "-"}
RECURSIVE LowercasedAllowed(_)
LowercasedAllowed(s) ==
  IF s = << >> THEN << >>
  ELSE LET c == toLowerChar(Head(s))
       IN (IF c \in AllowedChars THEN <<c>> ELSE << >>) \o LowercasedAllowed(Tail(s))
TextAfterLastDot(s) ==
  LET dots == {i \in 1..Len(s) : s[i] = "."}
      last == IF dots = {} THEN 0 ELSE CHOOSE i \in dots : \A j \in dots : j <= i
  IN SubSeq(s, last + 1, Len(s))
ExpectedFileName(name, version, extension) ==
  LowercasedAllowed(name) \o <<"_", "v">> \o version \o <<".">> \o extension
DeterministicFileName ==
  \A i \in TaskIds :
     tasks[i].status = "Uploading" =>
       LET t == tasks[i] IN
         /\ t.fileName = ExpectedFileName(t.packageName, t.packageVersion,
                                          TextAfterLastDot(FileNameOf(t.file)))
         /\ (/\ t.packageName = ExampleName /\ t.packageVersion = ExampleVersion
             /\ FileNameOf(t.file) = ExampleFile) => t.fileName = ExampleFileName
DeterministicFileNameWitness ==
  /\ Len(tasks) = 2
  /\ tasks[1].packageName = ExampleName /\ tasks[1].fileName = ExampleFileName
  /\ tasks[2].fileName = tasks[1].fileName

(* ------------------ two requests with different names ------------------ *)
(* The session is ready; the user fills the form in, publishes, and after  *)
(* the transaction has ended fills it in again with another name.          *)
CollisionNames == {<<"b">>, <<"b", "!">>}
CollisionVersion == <<"2">>
CollisionEdit ==
  \/ \E v \in CollisionNames : setPackageName(v)
  \/ setPackageDescription(<<"d">>)
  \/ setPackageVersion(CollisionVersion)
  \/ \E f \in FileInputs : handleFileChange(<<f>>)
InitCollision ==
  /\ db = <<"db">> /\ auth = <<"auth">> /\ storage = <<"storage">>
  /\ userId = UUID(1) /\ isAuthReady = TRUE
  /\ packages = << >>
  /\ uploading = FALSE /\ uploadProgress = 0 /\ uploadMessage = MsgNone
  /\ packageName \in CollisionNames
  /\ packageDescription = <<"d">>
  /\ packageVersion = CollisionVersion
  /\ packageFile \in FileInputs
  /\ mounted = "ok" /\ signIn = "pending" /\ authEvents = << >> /\ uuids = 1
  /\ subscription = "open" /\ subscriptionsOpened = 1
  /\ store = << >> /\ storageObjects = {}
  /\ tasks = << >>
NextCollision ==
  \/ CollisionEdit
  \/ NextPublish
SpecCollision == InitCollision /\ [][NextCollision]_vars

(* C11  The file name is unique per (name, version): two requests that     *)
(* were accepted and whose recorded (lowercased name, version) pairs       *)
(* differ have different file names and different destination paths,       *)
(* whether they are still in flight or have written their record.          *)
AcceptedRequests ==
  {[name |-> toLowerCase(tasks[i].packageName),
    version |-> tasks[i].packageVersion,
    fileName |-> tasks[i].fileName] : i \in InFlight}
    \cup {[name |-> store[k].name, version |-> store[k].version,
           fileName |-> store[k].fileName] : k \in 1..Len(store)}
FileNameUniquePerNameVersion ==
  \A r1, r2 \in AcceptedRequests :
     <<r1.name, r1.version>> # <<r2.name, r2.version>> =>
        /\ r1.fileName # r2.fileName
        /\ storagePath(r1.fileName) # storagePath(r2.fileName)

(* C12  The identity is created once and never changes: isAuthReady goes   *)
(* from false to true once and stays true, and once userId has a value no  *)
(* step gives it another one, whatever auth-state notifications arrive.    *)
IdentityCreatedOnce ==
  [][ /\ isAuthReady => isAuthReady'
      /\ userId # NULL => userId' = userId
    ]_vars

(* ------------------------ the start of a session ----------------------- *)
(* Mount, sign-in, the auth-state notifications, the catalog listener, the *)
(* form and the publish requests, without the events of the uploads.  The  *)
(* auth listener registered at line 58 is called for every notification    *)
(* Firebase Auth queued for it.                                            *)
NextBoot ==
  \/ MountEffect
  \/ SignInResolved
  \/ SignInRejected
  \/ onAuthStateChanged
  \/ onSnapshot
  \/ onSnapshotError
  \/ FormEdit
  \/ handleUpload
FairBoot == WF_vars(onAuthStateChanged)
SpecBoot == Init /\ [][NextBoot]_vars /\ FairBoot

(* C13  A failed sign-in is not fatal: once the mount effect has           *)
(* registered the auth listener, and whether the sign-in call is pending,  *)
(* resolved or rejected, the session becomes ready with a non-empty        *)
(* identity (a generated one when the sign-in was rejected); from then on  *)
(* the catalog listener has been opened and a complete publish request     *)
(* passes the gate.                                                        *)
FormComplete ==
  /\ packageFile # NULL /\ packageName # << >>
  /\ packageDescription # << >> /\ packageVersion # << >>
AuthFailureNonFatal ==
  /\ (mounted = "ok") ~> Ready
  /\ (signIn = "failed") ~> (Ready /\ userId[1] = "uuid")
  /\ (signIn = "ok") ~> (Ready /\ userId = Uid(1))
  /\ [](Ready => /\ subscriptionsOpened = 1
                 /\ subscription # "none"
                 /\ (FormComplete => ~formInvalid))
AuthFailureNonFatalWitness ==
  /\ signIn = "failed" /\ uploadMessage = MsgStarting
  /\ Ready /\ userId = UUID(1)
  /\ subscription = "open"
  /\ tasks # << >>

(* ----------------------- publishing and the catalog -------------------- *)
(* The ready session with its form, its publish transactions and the       *)
(* callbacks of the catalog listener.                                      *)
NextCatalog ==
  \/ NextCollision
  \/ onSnapshot
  \/ onSnapshotError
SpecCatalog == InitCollision /\ [][NextCatalog]_vars

(* C14  Wholesale replacement: a step that changes the local catalog       *)
(* leaves it with exactly the documents of the collection at that moment,  *)
(* one entry per document, in order, each with the document's id and its   *)
(* eight fields, whatever the catalog held before; no id occurs twice.     *)
SnapshotReplacesCatalog ==
  [][ packages' # packages =>
        /\ Len(packages') = Len(store)
        /\ \A k \in 1..Len(store) :
              /\ DOMAIN packages'[k] = RecordFields \cup {"id"}
              /\ packages'[k].id = k
              /\ \A f \in RecordFields : packages'[k][f] = store[k][f]
        /\ \A k, l \in 1..Len(packages') :
              packages'[k].id = packages'[l].id => k = l
    ]_vars
SnapshotReplacesCatalogWitness ==
  /\ Len(store) = 2
  /\ Len(packages) = 2 /\ packages[1].id = 1 /\ packages[2].id = 2
  /\ packages[1].name # packages[2].name

(* C15  One catalog subscription per session: the listener is opened at    *)
(* most once, in the step that makes the session ready; after its error    *)
(* callback the message says so, the listener stays dead and no new one is *)
(* opened, while a complete publish request still passes the gate.         *)
OneSubscription ==
  /\ [](/\ subscriptionsOpened <= 1
        /\ subscriptionsOpened = 1 => Ready
        /\ subscription = "none" <=> subscriptionsOpened = 0
        /\ (subscription = "error" /\ FormComplete) => ~formInvalid)
  /\ [][ /\ subscriptionsOpened' # subscriptionsOpened =>
              /\ ~isAuthReady /\ isAuthReady'
              /\ subscriptionsOpened' = subscriptionsOpened + 1
              /\ subscription' = "open"
         /\ subscription = "error" =>
              /\ subscription' = "error"
              /\ subscriptionsOpened' = subscriptionsOpened
         /\ (subscription # "error" /\ subscription' = "error") =>
              /\ uploadMessage' = MsgLoadFailed
              /\ tasks' = tasks /\ uploading' = uploading
       ]_vars
OneSubscriptionWitness ==
  /\ subscription = "error" /\ subscriptionsOpened = 1
  /\ userId = Uid(1) /\ authEvents = << >>
  /\ uploadMessage = MsgStarting

(* C19  The local catalog is changed by the snapshot callback only: a step *)
(* that changes it is taken while the listener is open and changes neither *)
(* the transactions, the store, the form nor the upload state; a step of a *)
(* publish transaction leaves it alone, so the record a transaction has    *)
(* just written is not in it; once the listener has failed it keeps the    *)
(* last snapshot.                                                          *)
CatalogChangedOnlyByPush ==
  [][ /\ packages' # packages =>
           /\ subscription = "open" /\ subscription' = "open"
           /\ UNCHANGED <<tasks, remoteVars, formVars, uploadVars, authVars>>
      /\ (tasks' # tasks \/ store' # store \/ storageObjects' # storageObjects)
           => packages' = packages
      /\ \A i \in TaskIds :
           Becomes(i, "Published") =>
              \A k \in 1..Len(packages') : packages'[k].id # tasks'[i].docId
      /\ subscription' = "error" => packages' = packages
    ]_vars
CatalogChangedOnlyByPushWitness ==
  /\ subscription = "error"
  /\ Len(packages) = 1 /\ Len(store) = 2
  /\ uploadMessage = MsgSaved

(* C16  The step that takes a transaction from CommittingMetadata to       *)
(* Published leaves the name, description and version of the form empty,   *)
(* packageFile null, the progress 0 and uploading false, with the success  *)
(* message; when no other transaction is in flight nothing is in flight    *)
(* afterwards.                                                             *)
PublishedResetsForm ==
  [][ \A i \in TaskIds :
        Becomes(i, "Published") =>
          /\ tasks[i].status \in CommittingStatus
          /\ packageName' = << >>
          /\ packageDescription' = << >>
          /\ packageVersion' = << >>
          /\ packageFile' = NULL
          /\ uploadProgress' = 0
          /\ uploading' = FALSE
          /\ uploadMessage' = MsgSaved
          /\ InFlight' = InFlight \ {i}
    ]_vars
PublishedResetsFormWitness ==
  /\ uploadMessage = MsgSaved /\ Len(store) = 2
  /\ store[1].displayName # store[2].displayName
  /\ formVars = << << >>, << >>, << >>, NULL >>
  /\ ~uploading /\ uploadProgress = 0 /\ InFlight = {}

(* ------------------------ payloads of every size ----------------------- *)
(* The ready session with a file of 0 .. MaxFileSize bytes selected.       *)
ProgressFiles == {<<<<"d", ".", "p", "y">>, n>> : n \in 0..MaxFileSize}
InitProgress ==
  /\ db = <<"db">> /\ auth = <<"auth">> /\ storage = <<"storage">>
  /\ userId = UUID(1) /\ isAuthReady = TRUE
  /\ packages = << >>
  /\ uploading = FALSE /\ uploadProgress = 0 /\ uploadMessage = MsgNone
  /\ packageName = <<"F","o","o">>
  /\ packageDescription = <<"d">>
  /\ packageVersion = <<"2",".","0">>
  /\ packageFile \in ProgressFiles
  /\ mounted = "ok" /\ signIn = "pending" /\ authEvents = << >> /\ uuids = 1
  /\ subscription = "open" /\ subscriptionsOpened = 1
  /\ store = << >> /\ storageObjects = {}
  /\ tasks = << >>
NextProgress == NextPublish
SpecProgress == InitProgress /\ [][NextProgress]_vars

(* C17  Monotonic progress: the percentage is 0 when an attempt starts,    *)
(* every percentage reported for an attempt is in 0..100 and not below the *)
(* one reported for it before, for a payload of any size, 0 bytes          *)
(* included.                                                               *)
MonotonicProgress ==
  /\ [](uploadProgress \in 0..100)
  /\ [][ /\ Len(tasks') = Len(tasks) + 1 => uploadProgress' = 0
         /\ \A i \in TaskIds :
              onProgress(i) =>
                /\ uploadProgress' \in 0..100
                /\ uploadProgress' >=
                     progressOf(tasks[i].bytesTransferred, tasks[i].totalBytes)
       ]_vars

(* C18  The record carries the identity of the session at the moment of    *)
(* the commit: in the step that writes it, uploaderId is the userId held   *)
(* then, also when an auth-state notification replaced userId after the    *)
(* request was made.                                                       *)
UploaderIsCurrentIdentity ==
  [][ \A i \in TaskIds :
        Becomes(i, "Published") => store'[Len(store')].uploaderId = userId
    ]_vars

(* C20  uploading is true exactly while some transaction is in Uploading   *)
(* or CommittingMetadata.                                                  *)
UploadingIffInFlight ==
  uploading <=> InFlight # {}
====
